---- MODULE Spec2Model ----
(***************************************************************************)
(* A model of the kas widget toolkit: the ListView view-model bridge with  *)
(* the DataModel of the list-view example, and the DragHandle control with *)
(* the press grabs of the event manager.                                   *)
(***************************************************************************)
EXTENDS Integers, Sequences, FiniteSets, TLC

(***************************************************************************)
(* Bounds of the model.                                                    *)
(***************************************************************************)
\* Longest data list of the model, and largest len given to data_range.
MaxLen == 3
\* Most child widgets the view is let to accumulate.
MaxChildren == 3

\* Largest position of a track, and largest size of a track or a handle.
MaxPos == 1
MaxSize == 2
\* Largest coordinate of a press and largest offset asked for; the least is
\* -1, below every track.
MaxCoord == 3

\* Most messages sent through the proxy, and most native events.
MaxSent == 3
MaxNative == 2

\* Most children given to one solver.
MaxFed == 4

\* The stand-in for usize::MAX.
\* The clip regions added between two renders.
MaxRegions == 3

\* The lines (children of a row) a RulesSetter is given.
MaxLines == 3

\* The columns of a grid, and the cells spanning several that it holds.
MaxCols == 3
MaxSpans == 2

UsizeMax == 7

\* The row texts.
Items == {"a", "b", "c"}

Max(a, b) == IF a >= b THEN a ELSE b
Min(a, b) == IF a <= b THEN a ELSE b

(***************************************************************************)
(* TkAction (toolkit.rs): an enum deriving Ord, so ordered by declaration. *)
(***************************************************************************)
TkAction == {"None", "Redraw", "Reconfigure", "Close", "CloseAll"}

TkRank(a) ==
    CASE a = "None" -> 0
      [] a = "Redraw" -> 1
      [] a = "Reconfigure" -> 2
      [] a = "Close" -> 3
      [] a = "CloseAll" -> 4

\* impl Add for TkAction: the more severe of the two.
TkAdd(a, b) == IF TkRank(a) >= TkRank(b) THEN a ELSE b

\* The actions a child list hands back from clear and push.
ListActions == {"None", "Redraw", "Reconfigure"}

(***************************************************************************)
(* ListViewMsg (list.rs).                                                  *)
(***************************************************************************)
MsgNone == [tag |-> "None", begin |-> 0, end |-> 0]
MsgDataRange == [tag |-> "DataRange", begin |-> 0, end |-> 0]
MsgDataRows(b, e) == [tag |-> "DataRows", begin |-> b, end |-> e]

(***************************************************************************)
(* The child list of the view, Column<Label>: a sequence of widgets. The   *)
(* action each call hands back is an input.                                *)
(***************************************************************************)
Label_new(row) == [text |-> row]

List_clear(w, act) == [w |-> <<>>, action |-> act]

\* Capacity only: the widgets stay as they are.
List_reserve(w, additional) == w

List_push(w, widget, act) == [w |-> Append(w, widget), action |-> act]

(***************************************************************************)
(* ListView (list.rs). Each operator gives the view after the call and     *)
(* what the call returns.                                                  *)
(***************************************************************************)
ListView_new == <<>>

ListView_refresh_keep(view, act) ==
    [view |-> view, action |-> act, msg |-> MsgDataRange]
ListView_refresh_norequest(view, act) ==
    LET r == List_clear(view, act)
    IN  [view |-> r.w, action |-> r.action, msg |-> MsgNone]
ListView_refresh(view, act) ==
    LET r == List_clear(view, act)
    IN  [view |-> r.w, action |-> r.action, msg |-> MsgDataRange]

ListView_data_range_from1(view, len) ==
    [view |-> List_reserve(view, len), msg |-> MsgDataRows(Min(1, len), len)]
ListView_data_range_truncate(view, len) ==
    [view |-> SubSeq(view, 1, Min(len, Len(view))),
     msg |-> MsgDataRows(0, len)]
ListView_data_range(view, len) ==
    [view |-> List_reserve(view, len), msg |-> MsgDataRows(0, len)]

ListView_data_row_front(view, index, row, act) ==
    [view |-> <<Label_new(row)>> \o view, action |-> act]
ListView_data_row_at(view, index, row, act) ==
    IF index < Len(view)
    THEN [view |-> [view EXCEPT ![index + 1] = Label_new(row)],
          action |-> act]
    ELSE LET r == List_push(view, Label_new(row), act)
         IN  [view |-> r.w, action |-> r.action]
ListView_data_row(view, index, row, act) ==
    LET r == List_push(view, Label_new(row), act)
    IN  [view |-> r.w, action |-> r.action]

(***************************************************************************)
(* DataModel (examples/list-view.rs). acts[1] is the action refresh hands  *)
(* back, acts[i + 2] the one the data_row call for index i hands back.     *)
(***************************************************************************)
RECURSIVE DataModel_rows_assign(_, _, _, _, _, _)
DataModel_rows_assign(view, data, i, end, action, acts) ==
    IF i >= end
    THEN [view |-> view, action |-> action]
    ELSE LET r == ListView_data_row(view, i, data[i + 1], acts[i + 2])
         IN  DataModel_rows_assign(r.view, data, i + 1, end, r.action, acts)
\* for i in begin..end { action += self.view.data_row(i, self.data[i]); }
RECURSIVE DataModel_rows(_, _, _, _, _, _)
DataModel_rows(view, data, i, end, action, acts) ==
    IF i >= end
    THEN [view |-> view, action |-> action]
    ELSE LET r == ListView_data_row(view, i, data[i + 1], acts[i + 2])
         IN  DataModel_rows(r.view, data, i + 1, end,
                            TkAdd(action, r.action), acts)

DataModel_view_request(view, data, msg, acts) ==
    CASE msg.tag = "None" -> [view |-> view, action |-> "None"]
      [] msg.tag = "DataRange" ->
            LET r == ListView_data_range(view, Len(data))
            IN  DataModel_rows(r.view, data, r.msg.begin, r.msg.end, "None", acts)
      [] msg.tag = "DataRows" ->
            DataModel_rows(view, data, msg.begin, msg.end, "None", acts)

DataModel_refresh_norefresh(view, data, acts) ==
    DataModel_view_request(view, data, MsgDataRange, acts)
DataModel_refresh(view, data, acts) ==
    LET r == ListView_refresh(view, acts[1])
        q == DataModel_view_request(r.view, data, r.msg, acts)
    IN  [view |-> q.view, action |-> TkAdd(r.action, q.action)]

(***************************************************************************)
(* Coord and Size (geom): modelled one component at a time. Every operation *)
(* drag.rs applies to them (+, -, clamped, / 2, From) acts on each         *)
(* component by itself, and two coordinates differ when a component does.  *)
(***************************************************************************)
Coords == -1 .. MaxCoord
Sizes == 0 .. MaxSize
Rects == [pos : 0 .. MaxPos, size : Sizes]

\* Coord::clamped(min, max): into [min, max]; min when the range is empty.
Clamped(x, lo, hi) == Max(Min(x, hi), lo)

(***************************************************************************)
(* The press grabs of the event manager: at most one widget per source.    *)
(***************************************************************************)
Sources == {"Mouse", "Touch"}
Widgets == {"handle", "other"}

Manager_request_grab(g, id, source) ==
    IF \E e \in g : e.source = source
    THEN [grabs |-> g, ok |-> FALSE]
    ELSE [grabs |-> g \cup {[source |-> source, id |-> id]}, ok |-> TRUE]

\* The end of a press releases its grab.
Manager_release(g, source) == {e \in g : e.source # source}

Holder(g, source) ==
    IF \E e \in g : e.source = source
    THEN (CHOOSE e \in g : e.source = source).id
    ELSE "none"

(***************************************************************************)
(* DragHandle (drag.rs). h is the handle: track, rect (core.rect),         *)
(* press_source ("None" or a source) and press_offset.                     *)
(***************************************************************************)
DragHandle_new ==
    [track |-> [pos |-> 0, size |-> 0], rect |-> [pos |-> 0, size |-> 0],
     press_source |-> "None", press_offset |-> 0]

DragHandle_offset(h) == h.rect.pos - h.track.pos

DragHandle_max_offset(h) == h.track.size - h.rect.size

DragHandle_set_offset_unclamped(h, offset) ==
    LET handle_pos == h.track.pos + offset
    IN  IF handle_pos # h.rect.pos
        THEN [h |-> [h EXCEPT !.rect.pos = handle_pos],
              offset |-> offset, moved |-> TRUE]
        ELSE [h |-> h, offset |-> offset, moved |-> FALSE]
DragHandle_set_offset_alwaysmoved(h, offset) ==
    LET o == Clamped(offset, 0, DragHandle_max_offset(h))
    IN  [h |-> [h EXCEPT !.rect.pos = h.track.pos + o],
         offset |-> o, moved |-> TRUE]
DragHandle_set_offset(h, offset) ==
    LET o == Clamped(offset, 0, DragHandle_max_offset(h))
        handle_pos == h.track.pos + o
    IN  IF handle_pos # h.rect.pos
        THEN [h |-> [h EXCEPT !.rect.pos = handle_pos],
              offset |-> o, moved |-> TRUE]
        ELSE [h |-> h, offset |-> o, moved |-> FALSE]

DragHandle_set_size_and_offset_sizeonly(h, size, offset) ==
    [h |-> [h EXCEPT !.rect.size = size], redraw |-> TRUE]
DragHandle_set_size_and_offset(h, size, offset) ==
    LET r == DragHandle_set_offset([h EXCEPT !.rect.size = size], offset)
    IN  [h |-> r.h, redraw |-> r.moved]

\* impl Layout: set_rect sets the track and nothing else.
DragHandle_set_rect(h, rect) == [h EXCEPT !.track = rect]

DragHandle_grab_press_always(h, g, source, coord) ==
    LET r == Manager_request_grab(g, "handle", source)
    IN  [h |-> [h EXCEPT !.press_source = source], grabs |-> r.grabs,
         ok |-> r.ok]
DragHandle_grab_press(h, g, source, coord) ==
    LET r == Manager_request_grab(g, "handle", source)
    IN  IF r.ok
        THEN [h |-> [h EXCEPT !.press_source = source], grabs |-> r.grabs,
              ok |-> TRUE]
        ELSE [h |-> h, grabs |-> r.grabs, ok |-> FALSE]

DragHandle_handle_press_on_track_zero(h, g, source, coord) ==
    LET gp == DragHandle_grab_press(h, g, source, coord)
        h1 == [gp.h EXCEPT
                 !.press_offset = (gp.h.rect.size \div 2) + gp.h.track.pos]
        r == DragHandle_set_offset(h1, coord - h1.press_offset)
    IN  IF ~gp.ok
        THEN [h |-> gp.h, grabs |-> gp.grabs, grabbed |-> FALSE,
              offset |-> 0, moved |-> FALSE, redraw |-> FALSE]
        ELSE [h |-> r.h, grabs |-> gp.grabs, grabbed |-> TRUE,
              offset |-> r.offset, moved |-> r.moved, redraw |-> TRUE]
DragHandle_handle_press_on_track(h, g, source, coord) ==
    LET gp == DragHandle_grab_press(h, g, source, coord)
    IN  IF ~gp.ok
        THEN [h |-> gp.h, grabs |-> gp.grabs, grabbed |-> FALSE,
              offset |-> DragHandle_offset(gp.h), moved |-> FALSE,
              redraw |-> FALSE]
        ELSE LET h1 == [gp.h EXCEPT
                          !.press_offset = (gp.h.rect.size \div 2)
                                           + gp.h.track.pos]
                 r == DragHandle_set_offset(h1, coord - h1.press_offset)
             IN  [h |-> r.h, grabs |-> gp.grabs, grabbed |-> TRUE,
                  offset |-> r.offset, moved |-> r.moved, redraw |-> TRUE]

\* Manager::handle_generic: nothing of the handle changes.
Manager_handle_generic(h, g) ==
    [h |-> h, grabs |-> g, grabbed |-> FALSE, offset |-> 0, moved |-> FALSE,
     redraw |-> FALSE, resp |-> "Unhandled"]

\* impl EvHandler: event. ev is [kind, source, coord]. The arms of the match:
\* PressStart, PressMove and PressEnd of the recorded source.
DragHandle_press_start_nooffset(h, g, ev) ==
    LET gp == DragHandle_grab_press(h, g, ev.source, ev.coord)
    IN  IF ~gp.ok
        THEN [h |-> gp.h, grabs |-> gp.grabs, grabbed |-> FALSE,
              offset |-> 0, moved |-> FALSE, redraw |-> FALSE,
              resp |-> "None"]
        ELSE [h |-> [gp.h EXCEPT !.press_offset = ev.coord],
              grabs |-> gp.grabs, grabbed |-> TRUE, offset |-> 0,
              moved |-> FALSE, redraw |-> FALSE, resp |-> "None"]
DragHandle_press_start(h, g, ev) ==
    LET gp == DragHandle_grab_press(h, g, ev.source, ev.coord)
    IN  IF ~gp.ok
        THEN [h |-> gp.h, grabs |-> gp.grabs, grabbed |-> FALSE,
              offset |-> 0, moved |-> FALSE, redraw |-> FALSE,
              resp |-> "None"]
        ELSE [h |-> [gp.h EXCEPT
                       !.press_offset = ev.coord - DragHandle_offset(gp.h)],
              grabs |-> gp.grabs, grabbed |-> TRUE, offset |-> 0,
              moved |-> FALSE, redraw |-> FALSE, resp |-> "None"]

DragHandle_press_move_alwaysmsg(h, g, ev) ==
    LET r == DragHandle_set_offset(h, ev.coord - h.press_offset)
    IN  [h |-> r.h, grabs |-> g, grabbed |-> FALSE, offset |-> r.offset,
         moved |-> r.moved, redraw |-> TRUE, resp |-> "Msg"]
DragHandle_press_move(h, g, ev) ==
    LET r == DragHandle_set_offset(h, ev.coord - h.press_offset)
    IN  IF r.moved
        THEN [h |-> r.h, grabs |-> g, grabbed |-> FALSE,
              offset |-> r.offset, moved |-> TRUE, redraw |-> TRUE,
              resp |-> "Msg"]
        ELSE [h |-> r.h, grabs |-> g, grabbed |-> FALSE,
              offset |-> r.offset, moved |-> FALSE,
              redraw |-> FALSE, resp |-> "None"]

DragHandle_press_end(h, g, ev) ==
    [h |-> [h EXCEPT !.press_source = "None"], grabs |-> g,
     grabbed |-> FALSE, offset |-> 0, moved |-> FALSE,
     redraw |-> FALSE, resp |-> "None"]

DragHandle_event_anysource(h, g, ev) ==
    CASE ev.kind = "PressStart" -> DragHandle_press_start(h, g, ev)
      [] ev.kind = "PressMove" /\ h.press_source # "None" ->
            DragHandle_press_move(h, g, ev)
      [] ev.kind = "PressEnd" /\ h.press_source # "None" ->
            DragHandle_press_end(h, g, ev)
      [] OTHER -> Manager_handle_generic(h, g)
DragHandle_event_keepsource(h, g, ev) ==
    CASE ev.kind = "PressStart" -> DragHandle_press_start(h, g, ev)
      [] ev.kind = "PressMove" /\ ev.source = h.press_source ->
            DragHandle_press_move(h, g, ev)
      [] ev.kind = "PressEnd" /\ ev.source = h.press_source ->
            [DragHandle_press_end(h, g, ev) EXCEPT !.h = h]
      [] OTHER -> Manager_handle_generic(h, g)
DragHandle_event(h, g, ev) ==
    CASE ev.kind = "PressStart" -> DragHandle_press_start(h, g, ev)
      [] ev.kind = "PressMove" /\ ev.source = h.press_source ->
            DragHandle_press_move(h, g, ev)
      [] ev.kind = "PressEnd" /\ ev.source = h.press_source ->
            DragHandle_press_end(h, g, ev)
      [] OTHER -> Manager_handle_generic(h, g)

(***************************************************************************)
(* usize: UsizeMax stands for usize::MAX. A sum beyond it panics in a      *)
(* build with overflow checks and wraps in one without.                    *)
(***************************************************************************)
Usize == 0 .. UsizeMax
Builds == {"debug", "release"}

usize_add(a, b, build) ==
    IF a + b <= UsizeMax THEN [panic |-> FALSE, val |-> a + b]
    ELSE IF build = "debug" THEN [panic |-> TRUE, val |-> 0]
    ELSE [panic |-> FALSE, val |-> (a + b) % (UsizeMax + 1)]

(***************************************************************************)
(* ListData for [T] (data_traits.rs): keys are the indices.                *)
(***************************************************************************)
\* self.iter().cloned().enumerate()
Enumerate(d) == [i \in 1 .. Len(d) |-> [key |-> i - 1, item |-> d[i]]]

\* Iterator::skip and Iterator::take, collected.
Skip(s, n) == IF n >= Len(s) THEN <<>> ELSE SubSeq(s, n + 1, Len(s))
Take(s, n) == IF n >= Len(s) THEN s ELSE SubSeq(s, 1, n)

ListData_len(d) == Len(d)

ListData_iter_vec_from_takefirst(d, start, limit) ==
    Skip(Take(Enumerate(d), limit), start)
ListData_iter_vec_from(d, start, limit) ==
    Take(Skip(Enumerate(d), start), limit)

ListData_iter_vec_nolimit(d, limit) == Enumerate(d)
ListData_iter_vec(d, limit) == Take(Enumerate(d), limit)

\* The provided method of the trait, for implementations without their own.
ListData_iter_vec_default(d, limit) == ListData_iter_vec_from(d, 0, limit)

\* self.iter_vec(start + limit).skip(start), as the documentation of
\* iter_vec_from writes it.
ListData_iter_vec_skip(d, start, limit, build) ==
    LET n == usize_add(start, limit, build)
    IN  IF n.panic THEN [panic |-> TRUE, out |-> <<>>]
        ELSE [panic |-> FALSE, out |-> Skip(ListData_iter_vec(d, n.val), start)]

(***************************************************************************)
(* ToolkitProxy (kas-wgpu lib.rs) and the event loop it sends to. p is the *)
(* loop: queue, the user events in flight; native, the native events not   *)
(* yet delivered; log, the events delivered, in order; running. n numbers  *)
(* the messages in the order of their sending, to tell them apart.         *)
(***************************************************************************)
WindowIds == {1, 2}
UpdateHandles == {1}
Payloads == {0}

ProxyAction ==
    [tag : {"CloseAll"}, a : {0}, b : {0}]
    \cup [tag : {"Close"}, a : WindowIds, b : {0}]
    \cup [tag : {"Update"}, a : UpdateHandles, b : Payloads]

EventLoop_new ==
    [queue |-> <<>>, native |-> 0, arrived |-> 0, sent |-> <<>>,
     log |-> <<>>, running |-> TRUE, ok |-> TRUE]

\* EventLoopProxy::send_event: the event joins the end of the channel, or
\* the call fails when the loop has ended.
EventLoopProxy_send_event(p, action, n) ==
    IF p.running
    THEN [p EXCEPT !.queue = Append(@, [act |-> action, n |-> n]),
                   !.sent = Append(@, [act |-> action, n |-> n]),
                   !.ok = TRUE]
    ELSE [p EXCEPT !.ok = FALSE]

ToolkitProxy_close_first(p, id, n) ==
    IF p.running
    THEN LET m == [act |-> [tag |-> "Close", a |-> id, b |-> 0], n |-> n]
         IN  [p EXCEPT !.queue = <<m>> \o @, !.sent = Append(@, m),
                       !.ok = TRUE]
    ELSE [p EXCEPT !.ok = FALSE]
ToolkitProxy_close(p, id, n) ==
    EventLoopProxy_send_event(p, [tag |-> "Close", a |-> id, b |-> 0], n)

ToolkitProxy_close_all(p, n) ==
    EventLoopProxy_send_event(p, [tag |-> "CloseAll", a |-> 0, b |-> 0], n)

ToolkitProxy_trigger_update(p, handle, payload, n) ==
    EventLoopProxy_send_event(p, [tag |-> "Update", a |-> handle,
                                  b |-> payload], n)

\* The loop takes the user event at the head of the channel; CloseAll ends
\* the loop.
EventLoop_user_event(p) ==
    [p EXCEPT !.queue = Tail(@),
              !.log = Append(@, Head(p.queue)),
              !.running = (Head(p.queue).act.tag # "CloseAll")]

\* The loop takes a native event.
EventLoop_native_event(p) ==
    [p EXCEPT !.native = @ - 1,
              !.log = Append(@, [act |-> [tag |-> "Native", a |-> 0, b |-> 0],
                                 n |-> 0])]

(***************************************************************************)
(* SizeRules, and RulesSolver with its implementation for () (sizer.rs).   *)
(* sv is the solver: fed, the children given to for_child so far; state,   *)
(* "open", "finished" or "panicked"; out, what finish returned.            *)
(***************************************************************************)
SizeRules_EMPTY ==
    [min |-> 0, ideal |-> 0, stretch |-> "None", m0 |-> 0, m1 |-> 0]

SolverChildren == {"x", "y", "z"}

RulesSolver_new == [fed |-> <<>>, state |-> "open", out |-> SizeRules_EMPTY]

\* impl RulesSolver for (): for_child has an empty body.
Unit_for_child(sv, child) == sv

\* impl RulesSolver for (): the body of finish is unimplemented!().
Unit_finish(sv) == [sv EXCEPT !.state = "panicked"]

(***************************************************************************)
(* Layout of the ListView (list.rs) under solve (sizer.rs). Here Coord and *)
(* Size are pairs <<x, y>>, since the two size queries differ by axis.     *)
(***************************************************************************)
Coords2 == Coords \X Coords
Sizes2 == Sizes \X Sizes
Rects2 == [pos : (0 .. MaxPos) \X (0 .. MaxPos), size : Sizes2]

Rect2_ZERO == [pos |-> <<0, 0>>, size |-> <<0, 0>>]

\* Rect::contains: pos <= coord < pos + size in both components.
Rect_contains(r, c) ==
    \A i \in 1 .. 2 : r.pos[i] <= c[i] /\ c[i] < r.pos[i] + r.size[i]

\* Size::saturating_sub
Size_saturating_sub(a, b) == <<Max(a[1] - b[1], 0), Max(a[2] - b[2], 0)>>

\* Option<u32> and Option<WidgetId>.
None == [some |-> FALSE, val |-> 0]
Some(v) == [some |-> TRUE, val |-> v]
NoId == [some |-> FALSE, id |-> "-"]
SomeId(id) == [some |-> TRUE, id |-> id]

AxisInfo_new(vertical, fixed) == [vertical |-> vertical, fixed |-> fixed]

\* What a SizeHandle answers: edit_surround (s0, s1), inner_margin and
\* outer_margins.
Themes ==
    {[s0 |-> <<1, 0>>, s1 |-> <<0, 1>>, inner |-> <<0, 0>>, outer |-> 0],
     [s0 |-> <<0, 1>>, s1 |-> <<1, 1>>, inner |-> <<1, 0>>, outer |-> 1]}

\* The rules a child answers a size query with.
ContentRules ==
    {SizeRules_EMPTY,
     [min |-> 1, ideal |-> 2, stretch |-> "None", m0 |-> 1, m1 |-> 0],
     [min |-> 2, ideal |-> 2, stretch |-> "Low", m0 |-> 0, m1 |-> 1]}

\* SizeRules::extract_fixed: a fixed size along the axis, with the margins.
SizeRules_extract_fixed(vertical, size, margin) ==
    LET a == IF vertical THEN size[2] ELSE size[1]
    IN  [min |-> a, ideal |-> a, stretch |-> "None", m0 |-> margin,
         m1 |-> margin]

\* SizeRules::surrounded_by(frame, internal_margins = true): the content
\* with its margins inside the frame.
SizeRules_surrounded_by(rules, frame) ==
    [min |-> rules.min + frame.min + rules.m0 + rules.m1,
     ideal |-> rules.ideal + frame.ideal + rules.m0 + rules.m1,
     stretch |-> rules.stretch, m0 |-> frame.m0, m1 |-> frame.m1]

\* The child w, a ScrollRegion: its rect, and the axes it has been asked
\* its size rules on. Its answer to a size query is an input.
ScrollRegion_new == [rect |-> Rect2_ZERO, sized |-> {}]

ScrollRegion_size_rules(w, axis) ==
    [w EXCEPT !.sized = @ \cup {axis.vertical}]

ScrollRegion_set_rect(w, rect) == [w EXCEPT !.rect = rect]

\* The child's hit test: hit, one of its own widgets, inside its rect.
ScrollRegion_find_id(w, coord, hit) ==
    IF Rect_contains(w.rect, coord) THEN SomeId(hit) ELSE NoId

\* ListView, with its layout fields: core.rect, the child w, frame_offset
\* and frame_size; calls, the size queries made of it by the last solve.
ListView_layout_new ==
    [rect |-> Rect2_ZERO, w |-> ScrollRegion_new, frame_offset |-> <<0, 0>>,
     frame_size |-> <<0, 0>>, calls |-> <<>>]

\* impl Layout for ListView: size_rules. content is the child's answer.
ListView_size_rules_noforward(lv, theme, axis, content) ==
    LET frame_offset == <<theme.s0[1] + theme.inner[1],
                          theme.s0[2] + theme.inner[2]>>
        frame_size == <<frame_offset[1] + theme.s1[1] + theme.inner[1],
                        frame_offset[2] + theme.s1[2] + theme.inner[2]>>
        frame_rules == SizeRules_extract_fixed(axis.vertical, frame_size,
                                               theme.outer)
        i == IF axis.vertical THEN 2 ELSE 1
    IN  [lv |-> [lv EXCEPT
                    !.frame_offset[i] = frame_offset[i],
                    !.frame_size[i] = frame_size[i],
                    !.calls = Append(@, axis)],
         rules |-> SizeRules_surrounded_by(SizeRules_EMPTY, frame_rules)]
ListView_size_rules(lv, theme, axis, content) ==
    LET frame_offset == <<theme.s0[1] + theme.inner[1],
                          theme.s0[2] + theme.inner[2]>>
        frame_size == <<frame_offset[1] + theme.s1[1] + theme.inner[1],
                        frame_offset[2] + theme.s1[2] + theme.inner[2]>>
        frame_rules == SizeRules_extract_fixed(axis.vertical, frame_size,
                                               theme.outer)
        w == ScrollRegion_size_rules(lv.w, axis)
        i == IF axis.vertical THEN 2 ELSE 1
    IN  [lv |-> [lv EXCEPT
                    !.w = w,
                    !.frame_offset[i] = frame_offset[i] + content.m0,
                    !.frame_size[i] = frame_size[i] + content.m0
                                      + content.m1,
                    !.calls = Append(@, axis)],
         rules |-> SizeRules_surrounded_by(content, frame_rules)]

\* impl Layout for ListView: set_rect.
ListView_set_rect_unsaturated(lv, rect) ==
    [lv EXCEPT
        !.rect = rect,
        !.w = ScrollRegion_set_rect(lv.w,
                [pos |-> <<rect.pos[1] + lv.frame_offset[1],
                           rect.pos[2] + lv.frame_offset[2]>>,
                 size |-> <<rect.size[1] - lv.frame_size[1],
                            rect.size[2] - lv.frame_size[2]>>])]
ListView_set_rect(lv, rect) ==
    [lv EXCEPT
        !.rect = rect,
        !.w = ScrollRegion_set_rect(lv.w,
                [pos |-> <<rect.pos[1] + lv.frame_offset[1],
                           rect.pos[2] + lv.frame_offset[2]>>,
                 size |-> Size_saturating_sub(rect.size, lv.frame_size)])]

\* impl Layout for ListView: find_id.
ListView_find_id_norect(lv, coord, hit) ==
    LET c == ScrollRegion_find_id(lv.w, coord, hit)
    IN  IF c.some THEN c ELSE SomeId("view")
ListView_find_id(lv, coord, hit) ==
    IF ~Rect_contains(lv.rect, coord) THEN NoId
    ELSE LET c == ScrollRegion_find_id(lv.w, coord, hit)
         IN  IF c.some THEN c ELSE SomeId("view")

\* solve (sizer.rs): ch and cv are the child's answers on the two axes.
solve_height(lv, theme, size, ch, cv) ==
    LET r1 == ListView_size_rules(lv, theme, AxisInfo_new(FALSE, None), ch)
        r2 == ListView_size_rules(r1.lv, theme,
                                  AxisInfo_new(TRUE, Some(size[2])), cv)
    IN  [lv |-> r2.lv, w |-> r1.rules, h |-> r2.rules]
solve(lv, theme, size, ch, cv) ==
    LET r1 == ListView_size_rules(lv, theme, AxisInfo_new(FALSE, None), ch)
        r2 == ListView_size_rules(r1.lv, theme,
                                  AxisInfo_new(TRUE, Some(size[1])), cv)
    IN  [lv |-> r2.lv, w |-> r1.rules, h |-> r2.rules]

\* The laid-out view: lv; solved, solve has been called; given, what the last
\* solve was given and what its horizontal pass returned; last, the last
\* call and what it returned.
NoSolve ==
    [theme |-> CHOOSE t \in Themes : t.outer = 0, size |-> <<0, 0>>,
     ch |-> SizeRules_EMPTY, cv |-> SizeRules_EMPTY, w |-> SizeRules_EMPTY]

NoLayoutCall ==
    [op |-> "new", coord |-> <<0, 0>>, hit |-> NoId, found |-> NoId]

Layout_new ==
    [lv |-> ListView_layout_new, solved |-> FALSE, given |-> NoSolve,
     last |-> NoLayoutCall]

(***************************************************************************)
(* RulesSetter for a row of lines: the width of each line, from the rules  *)
(* the solve pass stored for it and the final size of the container. The   *)
(* lines here have no margins.                                             *)
(***************************************************************************)
\* StretchPriority, an ordered enum.
StretchPriority == <<"None", "Low", "High", "Filler">>

StretchRank(st) == CHOOSE i \in 1 .. Len(StretchPriority) : StretchPriority[i] = st

\* The rules of a line: min <= ideal.
LineRules ==
    {[min |-> 0, ideal |-> 10, stretch |-> "None"],
     [min |-> 10, ideal |-> 10, stretch |-> "Low"],
     [min |-> 5, ideal |-> 10, stretch |-> "Filler"],
     [min |-> 0, ideal |-> 0, stretch |-> "Filler"],
     [min |-> 10, ideal |-> 20, stretch |-> "High"],
     [min |-> 20, ideal |-> 20, stretch |-> "Filler"]}

\* The final sizes a container is given.
FinalSizes == {0, 20, 40, 45, 70}

RECURSIVE SeqSum(_)
SeqSum(q) == IF q = <<>> THEN 0 ELSE q[1] + SeqSum(Tail(q))

SumIdeal(rules) == SeqSum([i \in 1 .. Len(rules) |-> rules[i].ideal])
SumMin(rules) == SeqSum([i \in 1 .. Len(rules) |-> rules[i].min])

\* The highest stretch priority among the lines, and the lines that have it.
TopRank(rules) ==
    LET ranks == {StretchRank(rules[i].stretch) : i \in 1 .. Len(rules)}
    IN  CHOOSE r \in ranks : \A q \in ranks : q <= r

TopTier(rules) ==
    {i \in 1 .. Len(rules) : StretchRank(rules[i].stretch) = TopRank(rules)}

\* Slack, final - sum(ideal), goes to the lines of the highest priority, in
\* proportion to their ideal sizes (evenly when these are all 0); what
\* rounding down leaves over goes one unit each to the first of them.
RulesSetter_slack(rules, final, tier) ==
    LET slack == final - SumIdeal(rules)
        of == SeqSum([i \in 1 .. Len(rules) |->
                        IF i \in tier THEN rules[i].ideal ELSE 0])
        share(i) == IF of > 0 THEN (slack * rules[i].ideal) \div of
                    ELSE slack \div Cardinality(tier)
        left == slack - SeqSum([i \in 1 .. Len(rules) |->
                                  IF i \in tier THEN share(i) ELSE 0])
        before(i) == Cardinality({j \in tier : j < i})
    IN  [i \in 1 .. Len(rules) |->
            IF i \in tier
            THEN rules[i].ideal + share(i) + (IF before(i) < left THEN 1 ELSE 0)
            ELSE rules[i].ideal]

\* The widths of the lines: with slack, as above; with final = sum(ideal),
\* the ideal sizes; with final < sum(min), the minimum sizes.
RulesSetter_widths_alltiers(rules, final) ==
    CASE rules = <<>> -> <<>>
      [] final >= SumIdeal(rules) ->
            RulesSetter_slack(rules, final, 1 .. Len(rules))
      [] final < SumMin(rules) -> [i \in 1 .. Len(rules) |-> rules[i].min]
RulesSetter_widths(rules, final) ==
    CASE rules = <<>> -> <<>>
      [] final >= SumIdeal(rules) ->
            RulesSetter_slack(rules, final, TopTier(rules))
      [] final < SumMin(rules) -> [i \in 1 .. Len(rules) |-> rules[i].min]

\* RulesSetter::child_rect for line i, along the axis of the lines.
RulesSetter_child_rect(widths, i) ==
    [pos |-> SeqSum(SubSeq(widths, 1, i - 1)), size |-> widths[i]]

\* The row: rules, what the solve pass stored for each line; set, set_rect
\* has been called with final; rects, what child_rect returned for each line.
RowSetter_new == [rules |-> <<>>, set |-> FALSE, final |-> 0, rects |-> <<>>]

(***************************************************************************)
(* RulesSolver for a grid, along one axis: the rules of each column, and   *)
(* the cells that span several columns. Columns are numbered from 0 and a  *)
(* span is [begin, end).                                                   *)
(***************************************************************************)
\* The rules of a cell of one column, and of a cell spanning several.
CellRules == {[min |-> 10, ideal |-> 10], [min |-> 20, ideal |-> 30]}

SpanRules == {[min |-> 50, ideal |-> 50], [min |-> 15, ideal |-> 40]}

ColSpans == {sp \in (0 .. MaxCols - 1) \X (2 .. MaxCols) : sp[2] >= sp[1] + 2}

ColRules_EMPTY == [min |-> 0, ideal |-> 0]

\* Parallel composition: the max of min and of ideal.
ColRules_max(a, b) == [min |-> Max(a.min, b.min), ideal |-> Max(a.ideal, b.ideal)]

\* The sum of the minimum sizes of columns [begin, end).
SpanMin(cols, begin, end) ==
    SeqSum([i \in 1 .. end - begin |-> cols[begin + i].min])

\* Storage: widths, the rules of each column; spans, the spanning cells.
GridSolver_new ==
    [widths |-> [i \in 1 .. MaxCols |-> ColRules_EMPTY], spans |-> {}]

\* for_child with child_info (col, col_end) and the rules of the child.
GridSolver_for_child(st, col, col_end, rules) ==
    IF col_end = col + 1
    THEN [st EXCEPT !.widths[col + 1] = ColRules_max(@, rules)]
    ELSE [st EXCEPT !.spans = @ \cup {[begin |-> col, end |-> col_end,
                                        min |-> rules.min,
                                        ideal |-> rules.ideal]}]

\* One span in finish: where the columns spanned have a combined minimum
\* below that of the cell, what is missing is spread over them, the first
\* columns taking what rounding down leaves over.
GridSolver_clamp_span(cols, sp) ==
    LET n == sp.end - sp.begin
        missing == sp.min - SpanMin(cols, sp.begin, sp.end)
        add(k) == (missing \div n) + (IF k <= missing % n THEN 1 ELSE 0)
    IN  IF missing <= 0 THEN cols
        ELSE [i \in 1 .. Len(cols) |->
                IF sp.begin < i /\ i <= sp.end
                THEN [min |-> cols[i].min + add(i - sp.begin),
                      ideal |-> Max(cols[i].ideal,
                                    cols[i].min + add(i - sp.begin))]
                ELSE cols[i]]

\* col_spans, the iterator finish is given: the spans in grid order.
SpanBefore(a, b) ==
    \/ a.begin < b.begin
    \/ a.begin = b.begin /\ a.end < b.end
    \/ a.begin = b.begin /\ a.end = b.end /\ a.min <= b.min

RECURSIVE GridSolver_clamp_spans(_, _)
GridSolver_clamp_spans(cols, spans) ==
    IF spans = {} THEN cols
    ELSE LET sp == CHOOSE a \in spans : \A b \in spans : SpanBefore(a, b)
         IN  GridSolver_clamp_spans(GridSolver_clamp_span(cols, sp),
                                    spans \ {sp})

\* finish: the columns after the spans, and the rules of the axis, their
\* sequential composition.
GridSolver_finish_nospans(st) ==
    [cols |-> st.widths,
     rules |-> [min |-> SpanMin(st.widths, 0, MaxCols),
                ideal |-> SeqSum([i \in 1 .. MaxCols |-> st.widths[i].ideal])]]
GridSolver_finish(st) ==
    LET cols == GridSolver_clamp_spans(st.widths, st.spans)
    IN  [cols |-> cols,
         rules |-> [min |-> SpanMin(cols, 0, MaxCols),
                    ideal |-> SeqSum([i \in 1 .. MaxCols |-> cols[i].ideal])]]

\* The grid being solved: st, the storage; finished, finish has been called;
\* cols and rules, what finish left and returned.
Grid_new ==
    [st |-> GridSolver_new, finished |-> FALSE,
     cols |-> GridSolver_new.widths, rules |-> ColRules_EMPTY]

(***************************************************************************)
(* DrawPipe (kas-wgpu, draw_pipe.rs): its clip regions, a Vec<Rect> whose  *)
(* entry 0 is the window. The GPU objects it owns are left out.            *)
(***************************************************************************)
\* The regions widgets clip their drawing to.
ClipRects ==
    {[pos |-> <<0, 0>>, size |-> <<1, 1>>],
     [pos |-> <<MaxPos, 0>>, size |-> <<MaxSize, 1>>]}

\* DrawPipe::new(shared, tex_format, size)
DrawPipe_new(size) == <<[pos |-> <<0, 0>>, size |-> size]>>

\* DrawPipe::resize
DrawPipe_resize(clip_regions, size) ==
    [clip_regions EXCEPT ![1].size = size]

\* DrawPipe::render: one pass per region, then truncate(1).
DrawPipe_render_keep(clip_regions) == clip_regions
DrawPipe_render(clip_regions) == SubSeq(clip_regions, 1, 1)

\* Draw::add_clip_region; pass is what it returns.
DrawPipe_add_clip_region(clip_regions, region) ==
    [clip_regions |-> Append(clip_regions, region),
     pass |-> Len(clip_regions)]

\* The pipe: clip_regions; window, the size new or the last resize was
\* given; adds, the add_clip_region calls since the last render; last, the
\* last call, its region and what it returned.
NoPipeCall == [op |-> "new", region |-> Rect2_ZERO, pass |-> 0]

Pipe_new(size) ==
    [clip_regions |-> DrawPipe_new(size), window |-> size, adds |-> 0,
     last |-> NoPipeCall]

(***************************************************************************)
(* State.                                                                  *)
(***************************************************************************)
VARIABLES
    view,      \* the ListView: its child widgets, in order
    data,      \* DataModel.data
    lv_last,   \* the last call on the view, its arguments and what it returned
    cyc,       \* how far the refresh cycle under way has got
    supplied,  \* the data_row calls made since the last refresh()
    handle,    \* the DragHandle: track, core.rect, press_source, press_offset
    grabs,     \* the press grabs the event manager holds: (source, widget)
    dh_last,   \* the last call on the handle and what it returned
    stale,     \* set_rect has run since the offset was last clamped
    press,     \* the PressStart that began the drag under way, if any
    query,     \* the last call on the data list, its arguments and result
    proxy,     \* the proxy's channel to the main loop, and what was delivered
    solver,    \* the RulesSolver in use
    layout,    \* the laid-out view: its frame fields, rects and size queries
    pipe,      \* the DrawPipe of a window: its clip regions
    lines,     \* a row of lines: their rules and the rects set for them
    grid       \* a grid being solved along one axis

lvars == <<view, data, lv_last, cyc, supplied>>
dvars == <<handle, grabs, dh_last, stale, press>>
\* What the calls on the view and on the handle leave alone.
xvars == <<query, proxy, solver, layout, pipe, lines, grid>>
vars == <<view, data, lv_last, cyc, supplied, handle, grabs, dh_last, stale, press,
          query, proxy, solver, layout, pipe, lines, grid>>

NoCall ==
    [op |-> "new", len |-> 0, index |-> 0, row |-> "-",
     acts |-> <<>>, action |-> "None", msg |-> MsgNone]

\* How far the refresh cycle under way has got. from: what refresh() found,
\* "clean" (no children), "dirty" (children of an earlier cycle) or "misused"
\* (the calls before it did not form a cycle). done: the indices supplied.
\* model: len is that of DataModel.data, and the rows came in increasing
\* index order, each the model's item of that index.
CycIdle ==
    [phase |-> "idle", from |-> "clean", len |-> 0, done |-> {},
     model |-> FALSE]

\* The calls made do not form a refresh cycle.
CycBroken == [CycIdle EXCEPT !.phase = "broken"]

CycComplete(c) == c.phase = "rows" /\ c.done = 0 .. (c.len - 1)

CycFrom(c, v) ==
    IF c.phase = "broken" THEN "misused"
    ELSE IF v # <<>> THEN "dirty" ELSE "clean"

\* The data lists tried: rows that can be told apart, of every length.
Words == <<"a", "b", "c">>
DataSets == {SubSeq(Words, 1, n) : n \in 0 .. Min(MaxLen, Len(Words))}

NoDrag ==
    [op |-> "new", source |-> "None", arg |-> 0, grabbed |-> FALSE,
     offset |-> 0, moved |-> FALSE, redraw |-> FALSE, resp |-> "None"]

\* No drag under way that a PressStart began, or one the track or the
\* handle's size has changed under. Else c0 and o0: where the press started
\* and the offset the handle had.
NoPress == [live |-> FALSE, c0 |-> 0, o0 |-> 0]

NoQuery ==
    [op |-> "none", start |-> 0, limit |-> 0, out |-> <<>>, via |-> <<>>,
     panic |-> FALSE]


\* A view and a handle as constructed, with no press under way.
InitWidgets ==
    /\ view = ListView_new
    /\ lv_last = NoCall
    /\ cyc = CycIdle
    /\ supplied = 0
    /\ handle = DragHandle_new
    /\ grabs = {}
    /\ dh_last = NoDrag
    /\ stale = FALSE
    /\ press = NoPress
    /\ query = NoQuery
    /\ proxy = EventLoop_new
    /\ solver = RulesSolver_new
    /\ layout = Layout_new
    /\ lines = RowSetter_new
    /\ grid = Grid_new

InitList ==
    /\ data \in DataSets
    /\ pipe = Pipe_new(<<0, 0>>)
    /\ InitWidgets

(***************************************************************************)
(* The calls a model makes on its view, in any order.                      *)
(***************************************************************************)
Refresh ==
    \E act \in ListActions :
        LET r == ListView_refresh(view, act)
        IN  /\ view' = r.view
            /\ lv_last' = [NoCall EXCEPT !.op = "refresh",
                                         !.action = r.action, !.msg = r.msg]
            /\ cyc' = [CycIdle EXCEPT !.phase = "refreshed",
                                      !.from = CycFrom(cyc, view)]
            /\ supplied' = 0
            /\ UNCHANGED <<data, dvars, xvars>>

DataRange ==
    \E len \in 0 .. MaxLen :
        LET r == ListView_data_range(view, len)
        IN  /\ view' = r.view
            /\ lv_last' = [NoCall EXCEPT !.op = "data_range", !.len = len,
                                         !.msg = r.msg]
            /\ cyc' = IF cyc.phase = "refreshed"
                      THEN [cyc EXCEPT !.phase = "rows", !.len = len,
                                       !.model = (len = Len(data))]
                      ELSE CycBroken
            /\ UNCHANGED <<data, supplied, dvars, xvars>>

DataRow ==
    /\ Len(view) < MaxChildren
    /\ \E index \in 0 .. MaxLen - 1, row \in Items, act \in ListActions :
        LET r == ListView_data_row(view, index, row, act)
        IN  /\ view' = r.view
            /\ lv_last' = [NoCall EXCEPT !.op = "data_row", !.index = index,
                                         !.row = row, !.action = r.action]
            /\ cyc' = IF cyc.phase = "rows" /\ index < cyc.len
                         /\ index \notin cyc.done
                      THEN [cyc EXCEPT
                              !.done = @ \cup {index},
                              !.model = @ /\ index = Cardinality(cyc.done)
                                          /\ row = data[index + 1]]
                      ELSE CycBroken
            /\ supplied' = supplied + 1
            /\ UNCHANGED <<data, dvars, xvars>>

\* DataModel::refresh: the whole cycle in one call.
ModelRefresh ==
    \E acts \in [1 .. Len(data) + 1 -> ListActions] :
        LET r == DataModel_refresh(view, data, acts)
        IN  /\ view' = r.view
            /\ lv_last' = [NoCall EXCEPT !.op = "model_refresh",
                                         !.len = Len(data), !.acts = acts,
                                         !.action = r.action]
            /\ cyc' = [phase |-> "rows", from |-> CycFrom(cyc, view),
                       len |-> Len(data), done |-> 0 .. (Len(data) - 1),
                       model |-> TRUE]
            /\ supplied' = Len(data)
            /\ UNCHANGED <<data, dvars, xvars>>

NextList == Refresh \/ DataRange \/ DataRow \/ ModelRefresh

SpecList == InitList /\ [][NextList]_vars

(***************************************************************************)
(* The calls and events that reach a DragHandle, and the presses another   *)
(* widget grabs.                                                           *)
(***************************************************************************)
InitDrag ==
    /\ data = <<>>
    /\ pipe = Pipe_new(<<0, 0>>)
    /\ InitWidgets

InRange(h) ==
    /\ 0 <= DragHandle_offset(h)
    /\ DragHandle_offset(h) <= DragHandle_max_offset(h)

\* Layout::set_rect, by the parent, with a rect of R.
SetRect(R) ==
    \E rect \in R :
        /\ handle' = DragHandle_set_rect(handle, rect)
        /\ dh_last' = [NoDrag EXCEPT !.op = "set_rect"]
        /\ stale' = (stale \/ rect # handle.track)
        /\ press' = IF rect # handle.track THEN NoPress ELSE press
        /\ UNCHANGED <<grabs, lvars, xvars>>

SetSizeAndOffset(S, X) ==
    \E size \in S, offset \in X :
        LET r == DragHandle_set_size_and_offset(handle, size, offset)
        IN  /\ handle' = r.h
            /\ dh_last' = [NoDrag EXCEPT !.op = "set_size_and_offset",
                                         !.redraw = r.redraw]
            /\ stale' = FALSE
            /\ press' = IF size # handle.rect.size THEN NoPress ELSE press
            /\ UNCHANGED <<grabs, lvars, xvars>>

SetOffset(X) ==
    \E x \in X :
        LET r == DragHandle_set_offset(handle, x)
        IN  /\ handle' = r.h
            /\ dh_last' = [NoDrag EXCEPT !.op = "set_offset", !.arg = x,
                                         !.offset = r.offset,
                                         !.moved = r.moved]
            /\ stale' = FALSE
            /\ UNCHANGED <<grabs, press, lvars, xvars>>

\* The parent hands a press on the track to the handle.
HandlePressOnTrack(S, X) ==
    \E source \in S, coord \in X :
        LET r == DragHandle_handle_press_on_track(handle, grabs, source, coord)
        IN  /\ handle' = r.h
            /\ grabs' = r.grabs
            /\ dh_last' = [NoDrag EXCEPT !.op = "handle_press_on_track",
                                         !.source = source,
                                         !.grabbed = r.grabbed,
                                         !.offset = r.offset,
                                         !.moved = r.moved,
                                         !.redraw = r.redraw]
            /\ stale' = (stale /\ ~r.grabbed)
            /\ press' = IF r.grabbed THEN NoPress ELSE press
            /\ UNCHANGED <<lvars, xvars>>

\* A press starts over the handle: event delivery implies coord is over it.
PressStart(S, X) ==
    \E source \in S, coord \in X :
        /\ handle.rect.pos <= coord
        /\ coord < handle.rect.pos + handle.rect.size
        /\ LET r == DragHandle_event(handle, grabs,
                        [kind |-> "PressStart", source |-> source,
                         coord |-> coord])
           IN  /\ handle' = r.h
               /\ grabs' = r.grabs
               /\ dh_last' = [NoDrag EXCEPT !.op = "PressStart",
                                            !.source = source,
                                            !.grabbed = r.grabbed,
                                            !.resp = r.resp]
               /\ press' = IF r.grabbed
                           THEN [live |-> TRUE, c0 |-> coord,
                                 o0 |-> DragHandle_offset(handle)]
                           ELSE press
               /\ UNCHANGED <<stale, lvars, xvars>>

\* A press starts over another widget, which requests the grab.
OtherPressStart(S) ==
    \E source \in S :
        LET r == Manager_request_grab(grabs, "other", source)
        IN  /\ grabs' = r.grabs
            /\ dh_last' = [NoDrag EXCEPT !.op = "OtherPressStart",
                                         !.source = source,
                                         !.grabbed = r.ok]
            /\ UNCHANGED <<handle, stale, press, lvars, xvars>>

\* A press moves: the event goes to the handle unless another widget holds
\* the grab of its source.
PressMove(S, X) ==
    \E source \in S, coord \in X :
        /\ Holder(grabs, source) # "other"
        /\ LET r == DragHandle_event(handle, grabs,
                        [kind |-> "PressMove", source |-> source,
                         coord |-> coord])
           IN  /\ handle' = r.h
               /\ grabs' = r.grabs
               /\ dh_last' = [NoDrag EXCEPT !.op = "PressMove",
                                            !.source = source,
                                            !.offset = r.offset,
                                            !.moved = r.moved,
                                            !.redraw = r.redraw,
                                            !.resp = r.resp]
               /\ stale' = (stale /\ source # handle.press_source)
               /\ UNCHANGED <<press, lvars, xvars>>

\* A press ends: its grab is released, and the event goes to the handle
\* unless another widget held the grab.
PressEnd(S) ==
    \E source \in S :
        IF Holder(grabs, source) = "other"
        THEN /\ grabs' = Manager_release(grabs, source)
             /\ dh_last' = [NoDrag EXCEPT !.op = "OtherPressEnd",
                                          !.source = source]
             /\ UNCHANGED <<handle, stale, press, lvars, xvars>>
        ELSE LET r == DragHandle_event(handle, grabs,
                          [kind |-> "PressEnd", source |-> source,
                           coord |-> 0])
             IN  /\ handle' = r.h
                 /\ grabs' = Manager_release(r.grabs, source)
                 /\ dh_last' = [NoDrag EXCEPT !.op = "PressEnd",
                                              !.source = source,
                                              !.resp = r.resp]
                 /\ press' = IF source = handle.press_source
                             THEN NoPress ELSE press
                 /\ UNCHANGED <<stale, lvars, xvars>>

\* The geometry of one handle under every track, size, offset and press of
\* the mouse.
NextDrag ==
    \/ SetRect(Rects)
    \/ SetSizeAndOffset(Sizes, Coords)
    \/ SetOffset(Coords)
    \/ HandlePressOnTrack({"Mouse"}, Coords)
    \/ PressStart({"Mouse"}, Coords)
    \/ PressMove({"Mouse"}, Coords)
    \/ PressEnd({"Mouse"})

SpecDrag == InitDrag /\ [][NextDrag]_vars

\* The presses of two sources on a handle and on another widget: the handle
\* is laid out in the largest track, with the smallest size that lets a press
\* start over it.
GrabRects == {[pos |-> MaxPos, size |-> MaxSize]}
GrabSizes == {Min(1, MaxSize)}

NextGrab ==
    \/ SetRect(GrabRects)
    \/ SetSizeAndOffset(GrabSizes, {0})
    \/ HandlePressOnTrack(Sources, Coords)
    \/ PressStart(Sources, Coords)
    \/ OtherPressStart(Sources)
    \/ PressMove(Sources, Coords)
    \/ PressEnd(Sources)

SpecGrab == InitDrag /\ [][NextGrab]_vars

(***************************************************************************)
(* The calls a view makes on a data list, the slice DataModel.data.        *)
(***************************************************************************)
IterVec ==
    \E limit \in Usize, own \in BOOLEAN :
        /\ query' = [NoQuery EXCEPT
                        !.op = "iter_vec", !.limit = limit,
                        !.out = IF own THEN ListData_iter_vec(data, limit)
                                ELSE ListData_iter_vec_default(data, limit)]
        /\ UNCHANGED <<lvars, dvars, proxy, solver, layout, pipe, lines,
                       grid>>

\* iter_vec_from, and beside it what its documentation equates it with.
IterVecFrom ==
    \E start \in Usize, limit \in Usize, build \in Builds :
        LET r == ListData_iter_vec_skip(data, start, limit, build)
        IN  /\ query' = [NoQuery EXCEPT
                            !.op = "iter_vec_from", !.start = start,
                            !.limit = limit,
                            !.out = ListData_iter_vec_from(data, start, limit),
                            !.via = r.out, !.panic = r.panic]
            /\ UNCHANGED <<lvars, dvars, proxy, solver, layout, pipe, lines,
                       grid>>

NextData == IterVec \/ IterVecFrom

SpecData == InitList /\ [][NextData]_vars

(***************************************************************************)
(* Threads sending through a ToolkitProxy, native events arriving, and the *)
(* main loop delivering both.                                              *)
(***************************************************************************)
ProxyRest == <<lvars, dvars, query, solver, layout, pipe, lines,
    grid>>

ProxyClose ==
    /\ Len(proxy.sent) < MaxSent
    /\ \E id \in WindowIds :
        proxy' = ToolkitProxy_close(proxy, id, Len(proxy.sent) + 1)
    /\ UNCHANGED ProxyRest

ProxyCloseAll ==
    /\ Len(proxy.sent) < MaxSent
    /\ proxy' = ToolkitProxy_close_all(proxy, Len(proxy.sent) + 1)
    /\ UNCHANGED ProxyRest

ProxyTriggerUpdate ==
    /\ Len(proxy.sent) < MaxSent
    /\ \E uh \in UpdateHandles, payload \in Payloads :
        proxy' = ToolkitProxy_trigger_update(proxy, uh, payload,
                                             Len(proxy.sent) + 1)
    /\ UNCHANGED ProxyRest

NativeArrives ==
    /\ proxy.running
    /\ proxy.arrived < MaxNative
    /\ proxy' = [proxy EXCEPT !.native = @ + 1, !.arrived = @ + 1]
    /\ UNCHANGED ProxyRest

DeliverUser ==
    /\ proxy.running
    /\ proxy.queue # <<>>
    /\ proxy' = EventLoop_user_event(proxy)
    /\ UNCHANGED ProxyRest

DeliverNative ==
    /\ proxy.running
    /\ proxy.native > 0
    /\ proxy' = EventLoop_native_event(proxy)
    /\ UNCHANGED ProxyRest

NextProxy ==
    \/ ProxyClose
    \/ ProxyCloseAll
    \/ ProxyTriggerUpdate
    \/ NativeArrives
    \/ DeliverUser
    \/ DeliverNative

SpecProxy == InitDrag /\ [][NextProxy]_vars

(***************************************************************************)
(* A layout driving a RulesSolver: for_child for each of its children,     *)
(* then finish. A panic ends the program.                                  *)
(***************************************************************************)
SolverRest == <<lvars, dvars, query, proxy, layout, pipe, lines,
    grid>>

SolverForChild ==
    /\ solver.state = "open"
    /\ Len(solver.fed) < MaxFed
    /\ \E child \in SolverChildren :
        solver' = [Unit_for_child(solver, child) EXCEPT
                      !.fed = Append(solver.fed, child)]
    /\ UNCHANGED SolverRest

SolverFinish ==
    /\ solver.state = "open"
    /\ solver' = Unit_finish(solver)
    /\ UNCHANGED SolverRest

NextSolver == SolverForChild \/ SolverFinish

SpecSolver == InitDrag /\ [][NextSolver]_vars

(***************************************************************************)
(* The toolkit laying out a window whose root is the view: solve, then     *)
(* set_rect, then hit tests as the pointer moves.                          *)
(***************************************************************************)
LayoutRest == <<lvars, dvars, query, proxy, solver, pipe, lines,
    grid>>

\* The widgets of the child a hit test may find.
ChildIds == {"scroll", "label"}

\* solve(widget, tk, size), with a theme of TH, a size of SZ and the child
\* answering with rules of CR.
Solve(TH, CR, SZ) ==
    \E theme \in TH, size \in SZ, ch \in CR, cv \in CR :
        LET r == solve([layout.lv EXCEPT !.calls = <<>>], theme, size, ch, cv)
        IN  /\ layout' = [layout EXCEPT
                            !.lv = r.lv,
                            !.solved = TRUE,
                            !.given = [theme |-> theme, size |-> size,
                                       ch |-> ch, cv |-> cv, w |-> r.w],
                            !.last = [NoLayoutCall EXCEPT !.op = "solve"]]
            /\ UNCHANGED LayoutRest

\* Layout::set_rect on the root, which the toolkit calls once it has solved.
LayoutSetRect(R) ==
    /\ layout.solved
    /\ \E rect \in R :
        layout' = [layout EXCEPT
                      !.lv = ListView_set_rect(layout.lv, rect),
                      !.last = [NoLayoutCall EXCEPT !.op = "set_rect"]]
    /\ UNCHANGED LayoutRest

\* Layout::find_id on the root.
FindId(X) ==
    \E coord \in X, hit \in ChildIds :
        /\ layout' = [layout EXCEPT
                        !.last = [op |-> "find_id", coord |-> coord,
                                  hit |-> ScrollRegion_find_id(layout.lv.w,
                                                               coord, hit),
                                  found |-> ListView_find_id(layout.lv,
                                                             coord, hit)]]
        /\ UNCHANGED LayoutRest

\* The rects tried where the size queries vary: one with room for the child
\* and one smaller than any frame.
LayoutRects ==
    {[pos |-> <<MaxPos, 0>>, size |-> <<MaxSize, MaxSize>>],
     [pos |-> <<0, MaxPos>>, size |-> <<1, 0>>]}

NextLayout ==
    \/ Solve(Themes, ContentRules, Sizes2)
    \/ LayoutSetRect(LayoutRects)

SpecLayout == InitDrag /\ [][NextLayout]_vars

\* Hit tests over every rect and coordinate, under one theme and one answer
\* of the child.
FindThemes == {t \in Themes : t.outer = 0}
FindRules == {SizeRules_EMPTY}
FindSizes == {<<MaxSize, MaxSize>>}

NextFind ==
    \/ Solve(FindThemes, FindRules, FindSizes)
    \/ LayoutSetRect(Rects2)
    \/ FindId(Coords2)

SpecFind == InitDrag /\ [][NextFind]_vars

(***************************************************************************)
(* A row container: the solve pass stores the rules of each line, then     *)
(* set_rect asks the setter for the rect of every line.                    *)
(***************************************************************************)
RowRest == <<lvars, dvars, query, proxy, solver, layout, pipe,
    grid>>

\* The solve pass stores the rules of one more line.
RowSolveLine ==
    /\ Len(lines.rules) < MaxLines
    /\ \E rules \in LineRules :
        lines' = [RowSetter_new EXCEPT !.rules = Append(lines.rules, rules)]
    /\ UNCHANGED RowRest

\* set_rect with a final size the setter has a rule for: no less than the
\* sum of the ideal sizes, or less than the sum of the minimum sizes.
RowSetRect ==
    /\ lines.rules # <<>>
    /\ \E final \in FinalSizes :
        /\ final >= SumIdeal(lines.rules) \/ final < SumMin(lines.rules)
        /\ LET widths == RulesSetter_widths(lines.rules, final)
           IN  lines' = [lines EXCEPT
                        !.set = TRUE,
                        !.final = final,
                        !.rects = [i \in 1 .. Len(lines.rules) |->
                                     RulesSetter_child_rect(widths, i)]]
    /\ UNCHANGED RowRest

NextRow == RowSolveLine \/ RowSetRect

SpecRow == InitDrag /\ [][NextRow]_vars

(***************************************************************************)
(* A grid container solving one axis: for_child for each cell, in no fixed *)
(* order, then finish.                                                     *)
(***************************************************************************)
GridRest == <<lvars, dvars, query, proxy, solver, layout, pipe, lines>>

\* for_child for a cell of one column.
GridCell ==
    /\ ~grid.finished
    /\ \E col \in 0 .. MaxCols - 1, rules \in CellRules :
        grid' = [grid EXCEPT
                    !.st = GridSolver_for_child(@, col, col + 1, rules)]
    /\ UNCHANGED GridRest

\* for_child for a cell spanning several columns.
GridSpanCell ==
    /\ ~grid.finished
    /\ Cardinality(grid.st.spans) < MaxSpans
    /\ \E sp \in ColSpans, rules \in SpanRules :
        grid' = [grid EXCEPT
                    !.st = GridSolver_for_child(@, sp[1], sp[2], rules)]
    /\ UNCHANGED GridRest

GridFinish ==
    /\ ~grid.finished
    /\ LET r == GridSolver_finish(grid.st)
       IN  grid' = [grid EXCEPT !.finished = TRUE, !.cols = r.cols,
                                !.rules = r.rules]
    /\ UNCHANGED GridRest

NextGridSolver == GridCell \/ GridSpanCell \/ GridFinish

SpecGridSolver == InitDrag /\ [][NextGridSolver]_vars

(***************************************************************************)
(* A window's DrawPipe: widgets add clip regions while they draw, the      *)
(* window is resized, and each frame ends with render.                     *)
(***************************************************************************)
PipeRest == <<lvars, dvars, query, proxy, solver, layout, lines,
    grid>>

InitPipe ==
    /\ data = <<>>
    /\ InitWidgets
    /\ \E size \in Sizes2 : pipe = Pipe_new(size)

AddClipRegion ==
    /\ pipe.adds < MaxRegions
    /\ \E region \in ClipRects :
        LET r == DrawPipe_add_clip_region(pipe.clip_regions, region)
        IN  /\ pipe' = [pipe EXCEPT
                          !.clip_regions = r.clip_regions,
                          !.adds = @ + 1,
                          !.last = [op |-> "add_clip_region",
                                    region |-> region, pass |-> r.pass]]
            /\ UNCHANGED PipeRest

PipeResize ==
    \E size \in Sizes2 :
        /\ pipe' = [pipe EXCEPT
                      !.clip_regions = DrawPipe_resize(pipe.clip_regions, size),
                      !.window = size,
                      !.last = [NoPipeCall EXCEPT !.op = "resize"]]
        /\ UNCHANGED PipeRest

PipeRender ==
    /\ pipe' = [pipe EXCEPT
                  !.clip_regions = DrawPipe_render(pipe.clip_regions),
                  !.adds = 0,
                  !.last = [NoPipeCall EXCEPT !.op = "render"]]
    /\ UNCHANGED PipeRest

NextPipe == AddClipRegion \/ PipeResize \/ PipeRender

SpecPipe == InitPipe /\ [][NextPipe]_vars

(***************************************************************************)
(* Properties of the ListView protocol.                                    *)
(***************************************************************************)
LabelsOf(rows) == [i \in 1 .. Len(rows) |-> [text |-> rows[i]]]

\* C1: after a full refresh cycle (refresh, data_range(len), one data_row for
\* every index below len, in any order) the view has exactly len children,
\* whatever it held when refresh was called.
C1_FullCycleCount == CycComplete(cyc) => Len(view) = cyc.len

C1_Witness ==
    /\ lv_last.op = "data_row"
    /\ CycComplete(cyc)
    /\ cyc.from = "dirty"
    /\ cyc.len >= 2

\* C2: refresh(), called in any state, leaves no child widget and returns
\* the message DataRange.
C2_RefreshClears ==
    lv_last.op = "refresh" => view = <<>> /\ lv_last.msg = MsgDataRange

C2_Witness == lv_last.op = "refresh" /\ cyc.from = "dirty"

\* C3: data_range(len) returns DataRows(0, len) for every len, 0 included,
\* and leaves the sequence of child widgets as it was.
C3_DataRangeFrame ==
    [][lv_last'.op = "data_range" =>
            /\ lv_last'.msg = MsgDataRows(0, lv_last'.len)
            /\ view' = view]_vars

C3_Witness == lv_last.op = "data_range" /\ lv_last.len = 0 /\ Len(view) >= 2

\* C4: every data_row(index, value) appends exactly one child showing value
\* at the end of the list and leaves the children before it and their order
\* unchanged, whatever index is.
C4_DataRowAppends ==
    [][lv_last'.op = "data_row" =>
            view' = Append(view, [text |-> lv_last'.row])]_vars

C4_Witness ==
    /\ lv_last.op = "data_row"
    /\ Len(view) >= 2
    /\ lv_last.index # Len(view) - 1

\* C5: when the rows of a refresh cycle are the model's items, supplied in
\* increasing index order, child i of the view shows item i of the model.
C5_ChildrenInModelOrder ==
    CycComplete(cyc) /\ cyc.model => view = LabelsOf(data)

C5_Witness ==
    /\ lv_last.op = "data_row"
    /\ CycComplete(cyc)
    /\ cyc.model
    /\ data = <<"a", "b", "c">>

\* C6: whatever calls were made before, in whatever order, the next call of
\* each kind is accepted, and a refresh cycle that follows calls which formed
\* no cycle still ends with len children.
C6_MisuseRecovers ==
    /\ ENABLED Refresh
    /\ ENABLED DataRange
    /\ Len(view) < MaxChildren => ENABLED DataRow
    /\ lv_last.op = "model_refresh" => Len(view) = Len(data)
    /\ CycComplete(cyc) /\ cyc.from = "misused" => Len(view) = cyc.len

C6_Witness ==
    /\ lv_last.op = "model_refresh"
    /\ cyc.from = "misused"
    /\ Len(data) >= 2

\* C7: the action DataModel::refresh returns is the most severe, in the order
\* None < Redraw < Reconfigure < Close < CloseAll, of the actions refresh()
\* and every data_row call returned; a sum of two actions is never less
\* severe than either.
C7_MostSevereAction ==
    /\ lv_last.op = "model_refresh" =>
            /\ \E i \in DOMAIN lv_last.acts : lv_last.action = lv_last.acts[i]
            /\ \A i \in DOMAIN lv_last.acts :
                    TkRank(lv_last.acts[i]) <= TkRank(lv_last.action)
    /\ \A a, b \in TkAction :
            /\ TkRank(TkAdd(a, b)) >= TkRank(a)
            /\ TkRank(TkAdd(a, b)) >= TkRank(b)

C7_Witness ==
    /\ lv_last.op = "model_refresh"
    /\ Len(data) = 3
    /\ lv_last.acts = <<"Redraw", "None", "Reconfigure", "None">>

\* C29: the view has as many child widgets as data_row calls were made since
\* the last refresh(), or since construction when there was none: it begins
\* empty, data_range does not change the number, and data_row adds one
\* whatever its index. The number can so exceed the len given to data_range
\* when rows are supplied again without a refresh.
C29_ChildPerRowCall ==
    [][/\ lv_last.op = "new" => Len(view) = 0 /\ supplied = 0
       /\ Len(view') = supplied'
       /\ lv_last'.op = "refresh" => Len(view') = 0
       /\ lv_last'.op = "data_range" => Len(view') = Len(view)
       /\ lv_last'.op = "data_row" => Len(view') = Len(view) + 1]_vars

\* Rows supplied twice without a refresh between, and a data_range whose len
\* is less than the number of children there are.
C29_Witness ==
    /\ lv_last.op = "data_range"
    /\ cyc.phase = "broken"
    /\ lv_last.len > 0
    /\ Len(view) > lv_last.len
    /\ Len(view) > Len(data)
    /\ supplied = Len(view)

(***************************************************************************)
(* Properties of the DragHandle and of the press grabs.                    *)
(***************************************************************************)
HandleFits(h) == h.rect.size <= h.track.size

\* C8: with a handle no larger than its track, set_offset(x) returns, for
\* every x, an offset in [0, track size - handle size], and offset() is then
\* the value returned.
C8_SetOffsetClamps ==
    dh_last.op = "set_offset" /\ HandleFits(handle) =>
        /\ 0 <= dh_last.offset
        /\ dh_last.offset <= DragHandle_max_offset(handle)
        /\ DragHandle_offset(handle) = dh_last.offset

C8_Witness ==
    /\ dh_last.op = "set_offset"
    /\ handle.track.pos > 0
    /\ DragHandle_max_offset(handle) > 0
    /\ dh_last.arg > DragHandle_max_offset(handle)
    /\ dh_last.offset = DragHandle_max_offset(handle)

\* C9 as stated: after any sequence of operations, set_rect among them, a
\* handle no larger than its track has its offset in
\* [0, track size - handle size].
C9_AlwaysClamped == HandleFits(handle) => InRange(handle)

\* C9, amended: set_rect sets the track and does not clamp; the offset is
\* clamped by set_offset, and so by set_size_and_offset, by a PressMove of the
\* grabbing source and by a granted handle_press_on_track. A handle no larger
\* than its track has its offset in [0, track size - handle size] whenever
\* one of these has run since set_rect last changed the track.
C9_ClampedUnlessStale == ~stale /\ HandleFits(handle) => InRange(handle)

C9_Witness ==
    /\ dh_last.op = "set_size_and_offset"
    /\ ~stale
    /\ handle.track.pos > 0
    /\ handle.rect.size > 0
    /\ DragHandle_max_offset(handle) > 0
    /\ DragHandle_offset(handle) = DragHandle_max_offset(handle)

\* C10: a press source has at most one grab holder at any time; a grab
\* request is granted exactly when no widget holds the source; and a
\* PressStart that reaches the handle while the other widget holds its source
\* is rejected, leaves the handle where it was and records no press source.
Exclusive(g) == \A e1, e2 \in g : e1.source = e2.source => e1.id = e2.id

C10_GrabExclusive ==
    [][/\ Exclusive(grabs')
       /\ dh_last'.op \in {"PressStart", "OtherPressStart",
                           "handle_press_on_track"} =>
            (dh_last'.grabbed <=> Holder(grabs, dh_last'.source) = "none")
       /\ dh_last'.op = "PressStart"
            /\ Holder(grabs, dh_last'.source) = "other" =>
                /\ ~dh_last'.grabbed
                /\ handle' = handle
                /\ handle'.press_source # dh_last'.source
                /\ grabs' = grabs]_vars

C10_Witness ==
    /\ dh_last.op = "PressStart"
    /\ ~dh_last.grabbed
    /\ Holder(grabs, dh_last.source) = "other"
    /\ handle.press_source = "None"
    /\ DragHandle_max_offset(handle) > 0

\* C11: while the handle records press source s and holds its grab, a
\* PressMove or PressEnd is handled by the grab logic exactly when it carries
\* s; one of any other source goes to generic handling and changes neither
\* the handle's position nor the recorded press source.
C11_OtherSourceGeneric ==
    [][dh_last'.op \in {"PressMove", "PressEnd"}
        /\ handle.press_source # "None"
        /\ Holder(grabs, handle.press_source) = "handle" =>
            IF dh_last'.source = handle.press_source
            THEN dh_last'.resp \in {"None", "Msg"}
            ELSE /\ dh_last'.resp = "Unhandled"
                 /\ handle'.rect = handle.rect
                 /\ handle'.press_source = handle.press_source]_vars

C11_Witness ==
    /\ dh_last.op = "PressMove"
    /\ dh_last.resp = "Unhandled"
    /\ handle.press_source # "None"
    /\ Holder(grabs, handle.press_source) = "handle"
    /\ dh_last.source # handle.press_source
    /\ DragHandle_max_offset(handle) > 0

\* C12: a PressEnd of the recorded source leaves the handle with no recorded
\* press source and the source with no grab; a PressMove of a source moves
\* the handle only while that source is the recorded one; and a source
\* becomes the recorded one only by a press start of it that is granted the
\* grab.
C12_PressEndReleases ==
    [][/\ dh_last'.op = "PressEnd"
            /\ dh_last'.source = handle.press_source =>
                /\ handle'.press_source = "None"
                /\ Holder(grabs', dh_last'.source) = "none"
       /\ dh_last'.op = "PressMove"
            /\ dh_last'.source # handle.press_source =>
                /\ handle' = handle
                /\ ~dh_last'.moved
       /\ handle'.press_source # handle.press_source
            /\ handle'.press_source # "None" =>
                /\ dh_last'.op \in {"PressStart", "handle_press_on_track"}
                /\ dh_last'.grabbed
                /\ dh_last'.source = handle'.press_source]_vars

\* A PressMove of the source whose press has ended, over a handle with room
\* to move, which stays where it is.
C12_Witness ==
    /\ dh_last.op = "PressMove"
    /\ dh_last.resp = "Unhandled"
    /\ handle.press_source = "None"
    /\ grabs = {}
    /\ DragHandle_max_offset(handle) > 0
    /\ DragHandle_offset(handle) > 0

\* C20: set_offset(x) returns the offset the handle then has, which is x when
\* x lies in [0, track size - handle size], together with a boolean that is
\* true exactly when that offset differs from the one the handle had before
\* the call; a second set_offset with the same argument returns false.
C20_MovedIffChanged ==
    [][dh_last'.op = "set_offset" =>
        /\ dh_last'.offset = DragHandle_offset(handle')
        /\ 0 <= dh_last'.arg /\ dh_last'.arg <= DragHandle_max_offset(handle)
                => dh_last'.offset = dh_last'.arg
        /\ dh_last'.moved <=>
                DragHandle_offset(handle') # DragHandle_offset(handle)
        /\ dh_last.op = "set_offset" /\ dh_last.arg = dh_last'.arg
                => ~dh_last'.moved]_vars

\* The second of two calls with an argument beyond the range: the handle is
\* at the far end already, and the call returns false.
C20_Witness ==
    /\ dh_last.op = "set_offset"
    /\ ~dh_last.moved
    /\ dh_last.arg > DragHandle_max_offset(handle)
    /\ dh_last.offset = DragHandle_max_offset(handle)
    /\ dh_last.offset > 0
    /\ handle.track.pos > 0

\* C21: set_size_and_offset(size, offset) returns true whenever the call
\* changes the handle's rectangle, its size or its position, and false only
\* when the rectangle is unchanged.
C21_RedrawIffRectChanged ==
    [][dh_last'.op = "set_size_and_offset" =>
        (dh_last'.redraw <=> handle'.rect # handle.rect)]_vars

\* The coordinate lies in the handle's track, and over the handle.
InTrack(h, c) == h.track.pos <= c /\ c < h.track.pos + h.track.size
OverHandle(h, c) == h.rect.pos <= c /\ c < h.rect.pos + h.rect.size

\* The step is the call handle_press_on_track(mgr, source, c).
OnTrackStep(c) ==
    /\ dh_last'.op = "handle_press_on_track"
    /\ LET r == DragHandle_handle_press_on_track(handle, grabs,
                                                 dh_last'.source, c)
       IN  /\ handle' = r.h
           /\ grabs' = r.grabs
           /\ dh_last'.grabbed = r.grabbed
           /\ dh_last'.offset = r.offset
           /\ dh_last'.moved = r.moved

\* C25: the debug assertion of handle_press_on_track holds: whenever the grab
\* is granted for a press at a coordinate inside the track and outside the
\* handle, the set_offset that follows reports that the handle moved, for
\* every track, handle size no larger than the track and current offset.
C25_AssertMoved ==
    [][\A c \in Coords :
        /\ OnTrackStep(c)
        /\ dh_last'.grabbed
        /\ HandleFits(handle)
        /\ InTrack(handle, c)
        /\ ~OverHandle(handle, c)
        => dh_last'.moved]_vars

\* The step is the delivery of PressMove { source, coord: c } to the handle.
PressMoveStep(c) ==
    /\ dh_last'.op = "PressMove"
    /\ LET r == DragHandle_event(handle, grabs,
                    [kind |-> "PressMove", source |-> dh_last'.source,
                     coord |-> c])
       IN  /\ handle' = r.h
           /\ dh_last'.offset = r.offset
           /\ dh_last'.moved = r.moved
           /\ dh_last'.redraw = r.redraw
           /\ dh_last'.resp = r.resp

\* What C26 says of the response: Msg and a redraw exactly when the handle's
\* position changed, None and no redraw otherwise, and an offset in Msg that
\* is the clamped one, the offset the handle then has, and non-negative.
MsgIffMoved ==
    /\ handle'.rect.pos # handle.rect.pos =>
            dh_last'.resp = "Msg" /\ dh_last'.redraw
    /\ handle'.rect.pos = handle.rect.pos =>
            dh_last'.resp = "None" /\ ~dh_last'.redraw
    /\ dh_last'.resp = "Msg" =>
            /\ \A c \in Coords : PressMoveStep(c) =>
                    dh_last'.offset =
                        Clamped(c - handle.press_offset, 0,
                                DragHandle_max_offset(handle))
            /\ dh_last'.offset = DragHandle_offset(handle')
            /\ dh_last'.offset >= 0

C27_DragFollowsPress ==
    [][\A c \in Coords :
        /\ PressMoveStep(c)
        /\ press.live
        /\ dh_last'.source = handle.press_source
        => DragHandle_offset(handle') =
                Clamped(press.o0 + (c - press.c0), 0,
                        DragHandle_max_offset(handle))]_vars

\* A second move of a drag that began away from the start of the track.
C27_Witness ==
    /\ dh_last.op = "PressMove"
    /\ dh_last.moved
    /\ press.live
    /\ dh_last.source = handle.press_source
    /\ press.o0 > 0
    /\ press.c0 >= handle.track.pos + press.o0
    /\ DragHandle_offset(handle) = 0
    /\ handle.track.pos > 0

\* C28: the handle records at most one press source; a source becomes the
\* recorded one only by a grab request that is granted, in PressStart or in
\* handle_press_on_track; a granted request of another source replaces the
\* recorded one; and a rejected request leaves the recorded source, the press
\* offset and the handle's position as they were, handle_press_on_track then
\* returning the offset the handle has.
C28_OnePressSource ==
    [][/\ handle'.press_source \in Sources \cup {"None"}
       /\ handle'.press_source # handle.press_source
            /\ handle'.press_source # "None" =>
                /\ dh_last'.op \in {"PressStart", "handle_press_on_track"}
                /\ dh_last'.grabbed
                /\ Holder(grabs, dh_last'.source) = "none"
       /\ dh_last'.op \in {"PressStart", "handle_press_on_track"}
            /\ dh_last'.grabbed =>
                handle'.press_source = dh_last'.source
       /\ dh_last'.op \in {"PressStart", "handle_press_on_track"}
            /\ ~dh_last'.grabbed =>
                /\ handle'.press_source = handle.press_source
                /\ handle'.press_offset = handle.press_offset
                /\ handle'.rect = handle.rect
                /\ grabs' = grabs
       /\ dh_last'.op = "handle_press_on_track" /\ ~dh_last'.grabbed =>
                dh_last'.offset = DragHandle_offset(handle)]_vars

\* The touch is granted a press on the track while the mouse drags the
\* handle: the recorded source is now the touch.
C28_Witness ==
    /\ dh_last.op = "handle_press_on_track"
    /\ dh_last.grabbed
    /\ dh_last.source = "Touch"
    /\ handle.press_source = "Touch"
    /\ Holder(grabs, "Mouse") = "handle"
    /\ Holder(grabs, "Touch") = "handle"

IsUser(e) == e.act.tag # "Native"

\* C16: the proxy messages the main loop has been delivered are, in order
\* and each once, the first of those sent, however the native events fall
\* between them; and the messages in flight are the rest, in the order of
\* their sending, until the loop ends.
C16_ProxyInSendOrder ==
    LET got == SelectSeq(proxy.log, IsUser)
    IN  /\ Len(got) <= Len(proxy.sent)
        /\ got = SubSeq(proxy.sent, 1, Len(got))
        /\ got \o proxy.queue = proxy.sent

C16_Witness ==
    /\ Len(proxy.log) >= 4
    /\ IsUser(proxy.log[1])
    /\ ~IsUser(proxy.log[2])
    /\ IsUser(proxy.log[3])
    /\ proxy.log[1].act.tag = "Update"
    /\ proxy.log[3].act.tag = "Close"
    /\ proxy.log[4].act.tag = "CloseAll"

(***************************************************************************)
(* Properties of the layout solver.                                        *)
(***************************************************************************)
\* C19: finish does not panic, and finish with no for_child call before it
\* returns SizeRules::EMPTY (min 0, ideal 0, no stretch, zero margins); the
\* implementation for () is among those this is claimed of.
C19_FinishEmptyNoPanic ==
    /\ solver.state # "panicked"
    /\ solver.state = "finished" /\ solver.fed = <<>> =>
            solver.out = SizeRules_EMPTY

(***************************************************************************)
(* Properties of the layout of the view.                                   *)
(***************************************************************************)
\* C13 as stated: solve queries the root exactly twice, first on the
\* horizontal axis with no other-axis size, then on the vertical axis with
\* the other-axis size a width the horizontal pass resolved, one that the
\* rules it returned give (from their minimum to their ideal).
C13_WidthOfHorizontalPass ==
    layout.solved =>
        /\ Len(layout.lv.calls) = 2
        /\ layout.lv.calls[1] = AxisInfo_new(FALSE, None)
        /\ layout.lv.calls[2].vertical
        /\ layout.lv.calls[2].fixed.some
        /\ layout.lv.calls[2].fixed.val >= layout.given.w.min
        /\ layout.lv.calls[2].fixed.val <= layout.given.w.ideal

\* C13, amended: solve queries the root exactly twice, first on the
\* horizontal axis with no other-axis size, then on the vertical axis with
\* the other-axis size set to the width of the size solve was given; what
\* the horizontal pass returned is not used.
C13_TwoQueriesInOrder ==
    layout.solved =>
        layout.lv.calls =
            <<AxisInfo_new(FALSE, None),
              AxisInfo_new(TRUE, Some(layout.given.size[1]))>>

C13_Witness ==
    /\ layout.last.op = "solve"
    /\ layout.given.size[1] # layout.given.size[2]
    /\ layout.given.size[1] < layout.given.w.min
    /\ layout.lv.calls[2].fixed.val = layout.given.size[1]

\* C14: when set_rect is called on the view, and through it on its child,
\* each of the two has been asked its size rules on both axes, and the frame
\* offset and frame size set_rect reads are those of the last size queries
\* on both axes: the theme's frame with the child's margins of that axis.
C14_SizedBeforeSetRect ==
    [][layout'.last.op = "set_rect" =>
        LET th == layout.given.theme
            ch == layout.given.ch
            cv == layout.given.cv
        IN  /\ {layout.lv.calls[i].vertical :
                    i \in 1 .. Len(layout.lv.calls)} = BOOLEAN
            /\ layout.lv.w.sized = BOOLEAN
            /\ layout.lv.frame_offset =
                    <<th.s0[1] + th.inner[1] + ch.m0,
                      th.s0[2] + th.inner[2] + cv.m0>>
            /\ layout.lv.frame_size =
                    <<th.s0[1] + th.s1[1] + 2 * th.inner[1] + ch.m0 + ch.m1,
                      th.s0[2] + th.s1[2] + 2 * th.inner[2] + cv.m0 + cv.m1>>
            /\ layout'.lv.w.rect.pos =
                    <<layout'.lv.rect.pos[1] + layout.lv.frame_offset[1],
                      layout'.lv.rect.pos[2] + layout.lv.frame_offset[2]>>]_vars

C14_Witness ==
    /\ layout.last.op = "set_rect"
    /\ layout.given.ch.m0 = 1
    /\ layout.given.cv.m1 = 1
    /\ layout.given.theme.inner[1] = 1
    /\ layout.lv.w.rect.pos[1] = layout.lv.rect.pos[1] + 2
    /\ layout.lv.w.sized = BOOLEAN

\* C24: set_rect does not underflow: for every rect assigned, one smaller
\* than the frame size that size_rules recorded among them, the child is
\* given a rect whose size is the assigned size minus the frame size, 0 where
\* that would be negative, and whose position is the assigned position plus
\* the frame offset; the view keeps the rect assigned and its frame fields.
C24_SetRectSaturates ==
    [][layout'.last.op = "set_rect" =>
        LET rect == layout'.lv.rect
            fs == layout.lv.frame_size
            fo == layout.lv.frame_offset
            child == layout'.lv.w.rect
        IN  /\ \A i \in 1 .. 2 :
                /\ child.size[i] \in Nat
                /\ child.size[i] =
                        IF rect.size[i] >= fs[i] THEN rect.size[i] - fs[i]
                        ELSE 0
                /\ child.pos[i] = rect.pos[i] + fo[i]
            /\ layout'.lv.frame_size = fs
            /\ layout'.lv.frame_offset = fo]_vars

\* A rect narrower than the frame and not empty: the child's width is 0.
C24_Witness ==
    /\ layout.last.op = "set_rect"
    /\ layout.lv.rect.size[1] > 0
    /\ layout.lv.rect.size[1] < layout.lv.frame_size[1]
    /\ layout.lv.w.rect.size[1] = 0
    /\ layout.lv.w.rect.pos[2] = layout.lv.rect.pos[2]
                                 + layout.lv.frame_offset[2]
    /\ layout.lv.frame_offset[2] > 0

\* C15: find_id(coord) returns none when coord is outside the view's rect;
\* inside it, the id the child's hit test found when the child matched, and
\* the view's own id when it did not.
C15_FindId ==
    layout.last.op = "find_id" =>
        LET r == layout.lv.rect
            c == layout.last.coord
            inside == /\ r.pos[1] <= c[1] /\ c[1] < r.pos[1] + r.size[1]
                      /\ r.pos[2] <= c[2] /\ c[2] < r.pos[2] + r.size[2]
        IN  /\ ~inside => layout.last.found = NoId
            /\ inside /\ layout.last.hit.some =>
                    layout.last.found = layout.last.hit
            /\ inside /\ ~layout.last.hit.some =>
                    layout.last.found = SomeId("view")

\* A coordinate inside the view's rect and outside the child's, the child
\* having room of its own.
C15_Witness ==
    /\ layout.last.op = "find_id"
    /\ layout.last.found = SomeId("view")
    /\ layout.lv.w.rect.size[1] > 0
    /\ layout.lv.w.rect.size[2] > 0
    /\ layout.lv.rect.pos[1] > 0

(***************************************************************************)
(* Properties of the clip regions.                                         *)
(***************************************************************************)
\* C30: after any calls of add_clip_region, resize and render the list of
\* clip regions is not empty and its entry 0 is the whole window, at position
\* zero with the size of the last resize (of new before any); add_clip_region
\* returns the index the region was stored at; the calls between two renders
\* return 1, 2, ... in turn; and render leaves entry 0 alone in the list.
C30_ClipRegions ==
    [][/\ Len(pipe.clip_regions) >= 1
       /\ pipe.clip_regions[1] = [pos |-> <<0, 0>>, size |-> pipe.window]
       /\ Len(pipe'.clip_regions) >= 1
       /\ pipe'.clip_regions[1] = [pos |-> <<0, 0>>, size |-> pipe'.window]
       /\ pipe'.last.op = "add_clip_region" =>
            /\ pipe'.clip_regions[pipe'.last.pass + 1] = pipe'.last.region
            /\ pipe'.last.pass = Len(pipe.clip_regions)
            /\ pipe'.last.pass = pipe'.adds
            /\ pipe'.last.pass >= 1
            /\ pipe.last.op = "add_clip_region" =>
                    pipe'.last.pass > pipe.last.pass
            /\ pipe.last.op \in {"new", "render"} => pipe'.last.pass = 1
            /\ SubSeq(pipe'.clip_regions, 1, Len(pipe.clip_regions)) =
                    pipe.clip_regions
       /\ pipe'.last.op = "render" =>
            pipe'.clip_regions = <<pipe.clip_regions[1]>>
       /\ pipe'.last.op = "resize" =>
            Len(pipe'.clip_regions) = Len(pipe.clip_regions)]_vars

\* The second region added of a frame, not the one added first, in a
\* window resized to a width that is not its height.
C30_Witness ==
    /\ pipe.last.op = "add_clip_region"
    /\ pipe.last.pass = 2
    /\ pipe.clip_regions[2] # pipe.clip_regions[3]
    /\ pipe.window = <<MaxSize, 1>>
    /\ pipe.clip_regions[1].size = <<MaxSize, 1>>

(***************************************************************************)
(* Properties of the setter of a lines.                                      *)
(***************************************************************************)
RowWidths == [i \in 1 .. Len(lines.rects) |-> lines.rects[i].size]

\* C22: when the final size exceeds the sum of the ideal sizes, the lines of
\* the highest stretch priority take all the slack and a line of a lower
\* priority keeps its ideal size; the widths sum to the final size and the
\* rects follow one another; and three lines of priorities None, Low and
\* Filler with ideal sizes 10, 10 and 10 in a container 40 wide get the
\* widths 10, 10 and 20.
C22_SlackToHighestPriority ==
    lines.set /\ lines.final > SumIdeal(lines.rules) =>
        /\ \A i \in 1 .. Len(lines.rules) :
            /\ lines.rects[i].size >= lines.rules[i].ideal
            /\ i \notin TopTier(lines.rules) =>
                    lines.rects[i].size = lines.rules[i].ideal
            /\ lines.rects[i].pos = SeqSum(SubSeq(RowWidths, 1, i - 1))
        /\ SeqSum(RowWidths) = lines.final
        /\ (/\ lines.final = 40
            /\ [i \in 1 .. Len(lines.rules) |-> lines.rules[i].stretch] =
                    <<"None", "Low", "Filler">>
            /\ \A i \in 1 .. Len(lines.rules) : lines.rules[i].ideal = 10)
            => RowWidths = <<10, 10, 20>>

\* The three lines of the example, set in a container 40 wide.
C22_Witness ==
    /\ lines.set
    /\ lines.final = 40
    /\ lines.rules = <<[min |-> 0, ideal |-> 10, stretch |-> "None"],
                     [min |-> 10, ideal |-> 10, stretch |-> "Low"],
                     [min |-> 5, ideal |-> 10, stretch |-> "Filler"]>>
    /\ RowWidths = <<10, 10, 20>>

(***************************************************************************)
(* Properties of the solver of a grid.                                     *)
(***************************************************************************)
\* C23: after finish, for every cell spanning several columns the combined
\* minimum of the columns it spans is at least the cell's own minimum, no
\* column is below what its own cells asked for, and the minimum returned
\* covers the columns; so a cell of minimum 50 over columns 0 and 1, solved
\* as 10 and 10, leaves the two with a combined minimum of at least 50.
C23_SpanMinimumKept ==
    grid.finished =>
        /\ \A sp \in grid.st.spans :
                SpanMin(grid.cols, sp.begin, sp.end) >= sp.min
        /\ \A i \in 1 .. MaxCols :
                /\ grid.cols[i].min >= grid.st.widths[i].min
                /\ grid.cols[i].ideal >= grid.cols[i].min
        /\ grid.rules.min = SpanMin(grid.cols, 0, MaxCols)

\* The cell of the example over columns solved as 10 and 10.
C23_Witness ==
    /\ grid.finished
    /\ grid.st.widths[1].min = 10
    /\ grid.st.widths[2].min = 10
    /\ \E sp \in grid.st.spans :
            sp.begin = 0 /\ sp.end = 2 /\ sp.min = 50
    /\ SpanMin(grid.cols, 0, 2) = 50

====
